---- MODULE Spec2Model ----
(***************************************************************************)
(* A model of the Chess Arena growth dashboard (src/app.py): the memoized  *)
(* query functions, the report shaping of run_ga4_report, the date range   *)
(* of the funnel query, the funnel table with its derived columns, and the *)
(* top-to-bottom render of the script.                                     *)
(*                                                                         *)
(* Python values are modelled as follows.                                  *)
(*   - a dict is a TLA+ function whose DOMAIN is the key set;              *)
(*   - None / NaN in the "Total" column is the record NoneTotal, a present *)
(*     number n is Some(n) (pd.notna is the field notna);                  *)
(*   - a str is a TLA+ string; the em dash U+2014 the script writes in the *)
(*     empty cells is written Sentinel;                                    *)
(*   - a raised exception is a record with raised = TRUE.                  *)
(***************************************************************************)
EXTENDS Integers, Sequences, FiniteSets, TLC

VARIABLES
    pc,                  \* position of the operation under study
    secrets,             \* st.secrets: the state of each configured secret
    resource_cache,      \* st.cache_resource: the clients built so far
    data_cache,          \* st.cache_data: (function, arguments) -> entry
    clock,               \* the current instant, in seconds
    call,                \* the last call of a query function and its outcome
    now,                 \* app.py:162
    lookback_days,       \* app.py:171
    date_range,          \* app.py:106, the DateRange sent to the backend
    funnel_event_counts, \* app.py:183
    funnel_df,           \* app.py:202
    total_signups,       \* app.py:132
    render               \* outcome of the last run of the script

vars == <<pc, secrets, resource_cache, data_cache, clock, call, now,
          lookback_days, date_range, funnel_event_counts, funnel_df,
          total_signups, render>>

(***************************************************************************)
(* Bounds of the model.                                                    *)
(***************************************************************************)
\* event counts range over 0..MaxCount and the counts of the worked example
MaxCount == 3
\* "now" ranges over the days FirstDay .. FirstDay + MaxDayOffset
MaxDayOffset == 75
\* a backend response carries at most MaxRows rows
MaxRows == 2
\* the clock advances in steps of TickSeconds, MaxTicks times at most
TickSeconds == 1800
MaxTicks == 3

Idle == "idle"

(***************************************************************************)
(* Strings and number formatting.                                          *)
(***************************************************************************)
\* the cell text for "no data" (U+2014 in app.py)
Sentinel == "---"

DigitChar == <<"0", "1", "2", "3", "4", "5", "6", "7", "8", "9">>

\* str(n) for n >= 0
RECURSIVE IntToStr(_)
IntToStr(n) ==
    IF n < 10 THEN DigitChar[n + 1]
    ELSE IntToStr(n \div 10) \o DigitChar[(n % 10) + 1]

\* n written with exactly w digits, zero padded (n < 10^w)
RECURSIVE ZeroPad(_, _)
ZeroPad(n, w) ==
    IF w = 0 THEN "" ELSE ZeroPad(n \div 10, w - 1) \o DigitChar[(n % 10) + 1]

Abs(x) == IF x < 0 THEN -x ELSE x

\* the integer nearest to a / b (a >= 0, b > 0), ties to the even neighbour
RoundHalfEven(a, b) ==
    LET q == a \div b
        r == a % b
    IN  IF 2 * r < b THEN q
        ELSE IF 2 * r > b THEN q + 1
        ELSE IF q % 2 = 0 THEN q ELSE q + 1

\* f"{(num / den):.2%}" on float64 operands: the quotient times 100 with two
\* decimals; a zero divisor gives inf or nan (numpy does not raise).
\* (On the counts of this model no quotient lies on a rounding tie that is
\* not exactly representable in binary, so the decimal rounding is exact.)
FormatPercent(num, den) ==
    IF den = 0 THEN (IF num = 0 THEN "nan%" ELSE "inf%")
    ELSE LET bp == RoundHalfEven(10000 * Abs(num), den)
         IN  (IF num < 0 THEN "-" ELSE "")
             \o IntToStr(bp \div 100) \o "." \o ZeroPad(bp % 100, 2) \o "%"

\* f"{x:,.0f}" for an integral x >= 0: groups of three digits
RECURSIVE FormatThousands(_)
FormatThousands(n) ==
    IF n < 1000 THEN IntToStr(n)
    ELSE FormatThousands(n \div 1000) \o "," \o ZeroPad(n % 1000, 3)

(***************************************************************************)
(* The funnel table (app.py:191-229).                                      *)
(***************************************************************************)
NoneTotal == [notna |-> FALSE, v |-> 0]
Some(n) == [notna |-> TRUE, v |-> n]

EventNames == {"page_view", "click_register", "discord_signin"}

\* dict.get(key, default)
DictGet(d, key, default) == IF key \in DOMAIN d THEN d[key] ELSE default

\* funnel_steps, app.py:191-201
FunnelStepsShifted(counts) ==
    LET page_views == DictGet(counts, "page_view", 0)
        register_clicks == DictGet(counts, "click_register", 0)
        discord_signins == DictGet(counts, "discord_signin", 0)
    IN  << [Step |-> "Social Media Impressions", Total |-> NoneTotal],
           [Step |-> "Landing Page Visits", Total |-> Some(register_clicks)],
           [Step |-> "Clicked Register", Total |-> Some(page_views)],
           [Step |-> "Signed in with Discord", Total |-> Some(discord_signins)] >>

FunnelSteps(counts) ==
    LET page_views == DictGet(counts, "page_view", 0)
        register_clicks == DictGet(counts, "click_register", 0)
        discord_signins == DictGet(counts, "discord_signin", 0)
    IN  << [Step |-> "Social Media Impressions", Total |-> NoneTotal],
           [Step |-> "Landing Page Visits", Total |-> Some(page_views)],
           [Step |-> "Clicked Register", Total |-> Some(register_clicks)],
           [Step |-> "Signed in with Discord", Total |-> Some(discord_signins)] >>

\* the guard of app.py:206; iloc[1] is the second row
HasBaselineNoCheck(steps) == Len(steps) > 1

HasBaseline(steps) ==
    Len(steps) > 1 /\ steps[2].Total.notna /\ steps[2].Total.v > 0

\* app.py:209-212, the cell of row i (1-based) of "% of Impressions"
PercentageCell(steps, i) ==
    IF i = 1 THEN Sentinel
    ELSE IF steps[i].Total.notna
         THEN FormatPercent(steps[i].Total.v, steps[2].Total.v)
         ELSE "nan%"

\* app.py:214-224, the cell of row i (1-based) of "Drop-off"
DropOffCellFromBaseline(steps, i) ==
    IF i = 1 \/ i = Len(steps) THEN Sentinel
    ELSE LET current == steps[2].Total
             next_val == steps[i + 1].Total
         IN  IF current.notna /\ current.v > 0 /\ next_val.notna
             THEN FormatPercent(current.v - next_val.v, current.v)
             ELSE Sentinel

DropOffCell(steps, i) ==
    IF i = 1 \/ i = Len(steps) THEN Sentinel
    ELSE LET current == steps[i].Total
             next_val == steps[i + 1].Total
         IN  IF current.notna /\ current.v > 0 /\ next_val.notna
             THEN FormatPercent(current.v - next_val.v, current.v)
             ELSE Sentinel

\* app.py:229
TotalCell(total) == IF total.notna THEN FormatThousands(total.v) ELSE Sentinel

\* funnel_df after app.py:202-229: one record per row; Total keeps the number
\* next to its rendering TotalText
FunnelDf(steps) ==
    LET based == HasBaseline(steps)
    IN  [i \in 1..Len(steps) |->
            [Step |-> steps[i].Step,
             Total |-> steps[i].Total,
             TotalText |-> TotalCell(steps[i].Total),
             Pct |-> IF based THEN PercentageCell(steps, i) ELSE Sentinel,
             DropOff |-> IF based THEN DropOffCell(steps, i) ELSE Sentinel]]

\* the counts a report row may carry
Counts == (0..MaxCount) \cup {40, 250, 1000}

\* the mappings the dimensioned funnel query may return
EventDicts ==
    UNION {[keys -> Counts] : keys \in SUBSET EventNames}

(***************************************************************************)
(* Specification of the funnel computation alone: any mapping of event     *)
(* counts, then app.py:191-229.                                            *)
(***************************************************************************)
InitFunnel ==
    /\ pc = "funnel"
    /\ funnel_event_counts \in EventDicts
    /\ funnel_df = <<>>
    /\ secrets = Idle /\ resource_cache = Idle /\ data_cache = Idle
    /\ clock = 0 /\ call = Idle /\ now = Idle /\ lookback_days = 0
    /\ date_range = Idle /\ total_signups = 0 /\ render = Idle

BuildFunnel ==
    /\ pc = "funnel"
    /\ funnel_df' = FunnelDf(FunnelSteps(funnel_event_counts))
    /\ pc' = "funnel_done"
    /\ UNCHANGED <<secrets, resource_cache, data_cache, clock, call, now,
                   lookback_days, date_range, funnel_event_counts,
                   total_signups, render>>

NextFunnel == BuildFunnel

SpecFunnel == InitFunnel /\ [][NextFunnel]_vars

(***************************************************************************)
(* Claims about the funnel table.                                          *)
(***************************************************************************)
FunnelDone == pc = "funnel_done"

\* the text of num / den as a percentage with two decimals, from the
\* definition: the hundredths of a percent nearest to the quotient
RefPercentText(num, den) ==
    LET hundredths == (2 * 10000 * Abs(num) + den) \div (2 * den)
    IN  (IF num < 0 THEN "-" ELSE "")
        \o IntToStr(hundredths \div 100) \o "."
        \o DigitChar[((hundredths \div 10) % 10) + 1]
        \o DigitChar[(hundredths % 10) + 1] \o "%"

AllSentinel(df) ==
    \A i \in DOMAIN df : df[i].Pct = Sentinel /\ df[i].DropOff = Sentinel

NoZeroDivision(df) ==
    \A i \in DOMAIN df :
        /\ df[i].Pct \notin {"inf%", "nan%"}
        /\ df[i].DropOff \notin {"inf%", "nan%"}

\* four-stage inputs whose baseline (second row) is absent
AbsentBaselineSteps ==
    { << [Step |-> "Social Media Impressions", Total |-> NoneTotal],
         [Step |-> "Landing Page Visits", Total |-> NoneTotal],
         [Step |-> "Clicked Register", Total |-> t3],
         [Step |-> "Signed in with Discord", Total |-> t4] >> :
      t3 \in {NoneTotal} \cup {Some(c) : c \in Counts},
      t4 \in {NoneTotal} \cup {Some(c) : c \in Counts} }

\* C3: when the baseline total (second row, Landing Page Visits) is 0 or
\* absent, the percentage and drop-off cells of all four rows are the
\* sentinel whatever the other totals are, and no cell is the inf/nan text of
\* a division by zero.  (The script always passes a present baseline; the
\* absent case is the derived-column code applied to an absent baseline.)
C3_BaselineZeroAllSentinel ==
    /\ FunnelDone /\ (~funnel_df[2].Total.notna \/ funnel_df[2].Total.v = 0)
          => /\ Len(funnel_df) = 4
             /\ AllSentinel(funnel_df)
             /\ NoZeroDivision(funnel_df)
    /\ FunnelDone =>
          \A steps \in AbsentBaselineSteps :
              AllSentinel(FunnelDf(steps)) /\ NoZeroDivision(FunnelDf(steps))

C3_Witness ==
    /\ FunnelDone
    /\ funnel_df[2].Total.v = 0
    /\ funnel_df[3].Total.v > 0
    /\ funnel_df[4].Total.v > 0

\* C4: with non-negative counts and a baseline > 0, row i >= 1 carries the
\* percentage total[i] / total[1], row i in 1..n-2 carries the drop-off
\* 1 - total[i+1] / total[i] when total[i] > 0 and the sentinel otherwise,
\* each with two decimals; row 0 carries the sentinel twice and the last row
\* the sentinel as drop-off.  Counts 1000, 250, 40 give 25.00%, 4.00% and
\* drop-offs 75.00%, 84.00%.  (Rows are numbered from 0 in the claim and
\* from 1 in the model.)
C4_DerivedColumns ==
    FunnelDone /\ funnel_df[2].Total.v > 0 =>
        LET n == Len(funnel_df)
            total(i) == funnel_df[i].Total.v
        IN  /\ n = 4
            /\ funnel_df[1].Pct = Sentinel /\ funnel_df[1].DropOff = Sentinel
            /\ funnel_df[n].DropOff = Sentinel
            /\ \A i \in 2..n :
                  funnel_df[i].Pct = RefPercentText(total(i), total(2))
            /\ \A i \in 2..(n - 1) :
                  funnel_df[i].DropOff =
                      IF total(i) > 0
                      THEN RefPercentText(total(i) - total(i + 1), total(i))
                      ELSE Sentinel
            /\ (total(2) = 1000 /\ total(3) = 250 /\ total(4) = 40) =>
                  /\ funnel_df[2].Pct = "100.00%"
                  /\ funnel_df[3].Pct = "25.00%"
                  /\ funnel_df[4].Pct = "4.00%"
                  /\ funnel_df[2].DropOff = "75.00%"
                  /\ funnel_df[3].DropOff = "84.00%"
                  /\ funnel_df[4].DropOff = Sentinel

C4_Witness ==
    /\ FunnelDone
    /\ funnel_event_counts = [k \in EventNames |->
          CASE k = "page_view" -> 1000
            [] k = "click_register" -> 250
            [] OTHER -> 40]
    /\ funnel_df[3].Pct = "25.00%"
    /\ funnel_df[3].DropOff = "84.00%"

\* C7: for every mapping the dimensioned query returns, the empty one
\* included, each analytics stage's total is the mapping's count for its
\* event name, and 0 when the name is missing from the mapping.
C7_AbsentEventIsZero ==
    FunnelDone =>
        LET stageOf == [k \in EventNames |->
                CASE k = "page_view" -> 2
                  [] k = "click_register" -> 3
                  [] OTHER -> 4]
        IN  \A k \in EventNames :
               /\ funnel_df[stageOf[k]].Total.notna
               /\ funnel_df[stageOf[k]].Total.v =
                     IF k \in DOMAIN funnel_event_counts
                     THEN funnel_event_counts[k] ELSE 0

C7_Witness ==
    /\ FunnelDone
    /\ DOMAIN funnel_event_counts = {"page_view"}
    /\ funnel_event_counts["page_view"] = 250
    /\ funnel_df[2].Total.v = 250
    /\ funnel_df[3].Total.v = 0

(***************************************************************************)
(* Dates (app.py:161-178, 69-71, 106).  A datetime is a record of its      *)
(* wall-clock fields and its UTC offset in hours; minutes and below play   *)
(* no part in the date range.  Arithmetic with a timedelta works on the    *)
(* proleptic Gregorian ordinal of the wall-clock date and leaves the       *)
(* offset alone (datetime.__sub__).                                        *)
(***************************************************************************)
LOOKBACK_OPTIONS == <<7, 14, 30>>

IsLeap(y) == (y % 4 = 0) /\ ((y % 100 # 0) \/ (y % 400 = 0))

DaysInMonth(y, m) ==
    IF m = 2 THEN (IF IsLeap(y) THEN 29 ELSE 28)
    ELSE IF m \in {4, 6, 9, 11} THEN 30 ELSE 31

RECURSIVE DaysBeforeMonth(_, _)
DaysBeforeMonth(y, m) ==
    IF m = 1 THEN 0 ELSE DaysBeforeMonth(y, m - 1) + DaysInMonth(y, m - 1)

DaysBeforeYear(y) ==
    (y - 1) * 365 + (y - 1) \div 4 - (y - 1) \div 100 + (y - 1) \div 400

\* date.toordinal()
Ymd2Ord(y, m, d) == DaysBeforeYear(y) + DaysBeforeMonth(y, m) + d

\* date.fromordinal(n)
Ord2Ymd(n) ==
    LET y == CHOOSE yy \in (n \div 366)..(n \div 365 + 1) :
                 DaysBeforeYear(yy) < n /\ n <= DaysBeforeYear(yy + 1)
        rest == n - DaysBeforeYear(y)
        m == CHOOSE mm \in 1..12 :
                 /\ DaysBeforeMonth(y, mm) < rest
                 /\ rest <= DaysBeforeMonth(y, mm) + DaysInMonth(y, mm)
    IN  [year |-> y, month |-> m, day |-> rest - DaysBeforeMonth(y, m)]

\* dt - timedelta(days=n)
MinusDays(dt, n) ==
    LET ymd == Ord2Ymd(Ymd2Ord(dt.year, dt.month, dt.day) - n)
    IN  [dt EXCEPT !.year = ymd.year, !.month = ymd.month, !.day = ymd.day]

\* app.py:163, now.replace(hour=0, minute=0, second=0, microsecond=0)
TodayStart(dt) == [dt EXCEPT !.hour = 0, !.sec = 0]

\* app.py:177
RangeStartOffByOne(dt, lookback) == MinusDays(TodayStart(dt), lookback)

RangeStart(dt, lookback) == MinusDays(TodayStart(dt), lookback - 1)

\* app.py:164 and 178
RangeEnd(dt) == dt

\* app.py:69-71, dt.strftime('%Y-%m-%d')
format_date(dt) ==
    ZeroPad(dt.year, 4) \o "-" \o ZeroPad(dt.month, 2) \o "-"
        \o ZeroPad(dt.day, 2)

\* app.py:106
MakeDateRange(start_date, end_date) ==
    [start_date |-> format_date(start_date), end_date |-> format_date(end_date)]

\* the first day "now" ranges over: 2024-01-01, so that the ranges cross a
\* year boundary and the leap day
FirstDay == Ymd2Ord(2024, 1, 1)

\* the instants datetime.now(tz) may return: a day, an hour of the day, and
\* the offset of America/Los_Angeles (PST or PDT)
NowDomain ==
    { [year |-> Ord2Ymd(FirstDay + k).year,
       month |-> Ord2Ymd(FirstDay + k).month,
       day |-> Ord2Ymd(FirstDay + k).day,
       hour |-> h, sec |-> 1800, utcoffset |-> off] :
      k \in 0..MaxDayOffset, h \in {0, 12, 23}, off \in {-8, -7} }

(***************************************************************************)
(* Specification of the date range alone: any instant and any lookback,    *)
(* then app.py:163-178 and the DateRange of app.py:106.                    *)
(***************************************************************************)
InitDate ==
    /\ pc = "dates"
    /\ now \in NowDomain
    /\ lookback_days \in {LOOKBACK_OPTIONS[i] : i \in DOMAIN LOOKBACK_OPTIONS}
    /\ date_range = Idle
    /\ secrets = Idle /\ resource_cache = Idle /\ data_cache = Idle
    /\ clock = 0 /\ call = Idle /\ funnel_event_counts = Idle
    /\ funnel_df = <<>> /\ total_signups = 0 /\ render = Idle

ComputeDateRange ==
    /\ pc = "dates"
    /\ date_range' = MakeDateRange(RangeStart(now, lookback_days), RangeEnd(now))
    /\ pc' = "dates_done"
    /\ UNCHANGED <<secrets, resource_cache, data_cache, clock, call, now,
                   lookback_days, funnel_event_counts, funnel_df,
                   total_signups, render>>

NextDate == ComputeDateRange

SpecDate == InitDate /\ [][NextDate]_vars

\* the calendar day before a calendar day, by the calendar's own rules
PrevDay(d) ==
    IF d.day > 1 THEN [d EXCEPT !.day = d.day - 1]
    ELSE IF d.month > 1
         THEN [year |-> d.year, month |-> d.month - 1,
               day |-> DaysInMonth(d.year, d.month - 1)]
         ELSE [year |-> d.year - 1, month |-> 12, day |-> 31]

RECURSIVE DaysBack(_, _)
DaysBack(d, k) == IF k = 0 THEN d ELSE DaysBack(PrevDay(d), k - 1)

Today == [year |-> now.year, month |-> now.month, day |-> now.day]

\* the calendar days from today back to the k-th day before it
DaysCovered(k) == {DaysBack(Today, j) : j \in 0..k}

\* C5: for every lookback in {7, 14, 30} and every instant, the range sent to
\* the backend ends today and starts on the day lookback - 1 days before
\* today, so that it covers exactly lookback consecutive calendar days.
C5_RangeSpansLookbackDays ==
    pc = "dates_done" =>
        /\ lookback_days \in {7, 14, 30}
        /\ date_range.end_date = format_date(Today)
        /\ date_range.start_date =
               format_date(DaysBack(Today, lookback_days - 1))
        /\ Cardinality(DaysCovered(lookback_days - 1)) = lookback_days
        /\ \A d \in DaysCovered(lookback_days - 1) :
               /\ date_range.start_date = format_date(d)
                     <=> d = DaysBack(Today, lookback_days - 1)
               /\ date_range.end_date = format_date(d) <=> d = Today

\* a range of 30 days that starts in the previous year, late in the evening
C5_Witness ==
    /\ pc = "dates_done"
    /\ lookback_days = 30
    /\ now.hour = 23
    /\ date_range = [start_date |-> "2023-12-10", end_date |-> "2024-01-08"]

(***************************************************************************)
(* run_ga4_report (app.py:74-126).                                         *)
(*                                                                         *)
(* An optional tuple argument is PyNone or PyTuple(items); an absent       *)
(* datetime is NoneDate.  The text of a metric value is a sequence of      *)
(* characters, so that int() is a parse.  The function's outcome is a      *)
(* record: raised (an exception left the function), error (the message     *)
(* handed to st.error, "" for none), result (a tagged int or dict) and     *)
(* request (what was sent to the backend, or NoRequest).                   *)
(***************************************************************************)
PyNone == [none |-> TRUE, items |-> <<>>]
PyTuple(items) == [none |-> FALSE, items |-> items]

\* truth value of an optional tuple: None and () are false
Truthy(t) == ~t.none /\ Len(t.items) > 0

NoneDate == [none |-> TRUE]
IsNoneDate(d) == "none" \in DOMAIN d

EmptyDict == [k \in {} |-> 0]
IntResult(n) == [type |-> "int", n |-> n, d |-> EmptyDict]
DictResult(d) == [type |-> "dict", n |-> 0, d |-> d]

NoRequest == [sent |-> FALSE]

\* the names of Filter.StringFilter.MatchType
MatchTypeNames ==
    {"MATCH_TYPE_UNSPECIFIED", "EXACT", "BEGINS_WITH", "ENDS_WITH", "CONTAINS",
     "FULL_REGEXP", "PARTIAL_REGEXP"}

\* the match-mode strings a caller may pass, and str.upper() on them
MatchModeStrings == {"FULL_REGEXP", "exact", "prefix"}

Upper(str) ==
    CASE str = "exact" -> "EXACT"
      [] str = "prefix" -> "PREFIX"
      [] OTHER -> str

Digits == {"0", "1", "2", "3", "4", "5", "6", "7", "8", "9"}

DigitValue(c) == CHOOSE v \in 0..9 : DigitChar[v + 1] = c

\* int(text) for a text of decimal digits; any other text is a ValueError
IsIntText(text) == Len(text) > 0 /\ \A i \in DOMAIN text : text[i] \in Digits

RECURSIVE IntOfText(_)
IntOfText(text) ==
    IF Len(text) = 0 THEN 0
    ELSE 10 * IntOfText(SubSeq(text, 1, Len(text) - 1))
         + DigitValue(text[Len(text)])

\* app.py:86-100: the filter expression, or the KeyError of an unknown mode
BuildFilter(filter_specs) ==
    IF ~Truthy(filter_specs) THEN [exc |-> "", expression |-> "None"]
    ELSE LET specs == filter_specs.items
             bad == {i \in DOMAIN specs : Upper(specs[i][3]) \notin MatchTypeNames}
             filters == [i \in DOMAIN specs |->
                            [field_name |-> specs[i][1], value |-> specs[i][2],
                             match_type |-> Upper(specs[i][3])]]
         IN  IF bad # {} THEN [exc |-> "KeyError", expression |-> "None"]
             ELSE IF Len(filters) = 1
                  THEN [exc |-> "", expression |-> [filter |-> filters[1]]]
                  ELSE [exc |-> "", expression |-> [and_group |-> filters]]

\* app.py:116-121: the dict built row by row; a later row with the same first
\* dimension value overwrites the earlier one.  exc is the ValueError of a
\* metric text that is no integer.
RECURSIVE ShapeRows(_)
ShapeRows(rows) ==
    IF Len(rows) = 0 THEN [exc |-> "", d |-> EmptyDict]
    ELSE LET before == ShapeRows(SubSeq(rows, 1, Len(rows) - 1))
             row == rows[Len(rows)]
             dimension_value == row.dimension_values[1]
         IN  IF before.exc # "" THEN before
             ELSE IF ~IsIntText(row.metric_values[1])
                  THEN [exc |-> "ValueError", d |-> EmptyDict]
                  ELSE [exc |-> "",
                        d |-> [k \in DOMAIN before.d \cup {dimension_value} |->
                                  IF k = dimension_value
                                  THEN IntOfText(row.metric_values[1])
                                  ELSE before.d[k]]]

\* app.py:113-121
ShapeResponse(dimensioned, rows) ==
    IF ~dimensioned
    THEN IF Len(rows) = 0 THEN [exc |-> "", result |-> IntResult(0)]
         ELSE IF IsIntText(rows[1].metric_values[1])
              THEN [exc |-> "",
                    result |-> IntResult(IntOfText(rows[1].metric_values[1]))]
              ELSE [exc |-> "ValueError", result |-> IntResult(0)]
    ELSE LET shaped == ShapeRows(rows)
         IN  [exc |-> shaped.exc, result |-> DictResult(shaped.d)]

\* app.py:83-121, the body of the try: exc names the exception that ends it
\* ("" when it returns), result what it returns
ReportTry(args, backend) ==
    LET dimensioned == Truthy(args.dimension_names)
        filter == BuildFilter(args.filter_specs)
        request == [sent |-> TRUE,
                    metrics |-> args.metric_names,
                    dimensions |-> IF dimensioned THEN args.dimension_names.items
                                   ELSE <<>>,
                    dimension_filter |-> filter.expression,
                    date_ranges |-> IF IsNoneDate(args.start_date)
                                       \/ IsNoneDate(args.end_date)
                                    THEN <<>>
                                    ELSE <<MakeDateRange(args.start_date,
                                                         args.end_date)>>]
    IN  IF filter.exc # ""
        THEN [exc |-> filter.exc, result |-> IntResult(0), request |-> NoRequest]
        ELSE IF IsNoneDate(args.start_date) \/ IsNoneDate(args.end_date)
        THEN [exc |-> "AttributeError", result |-> IntResult(0),
              request |-> NoRequest]
        ELSE IF backend.exc # ""
        THEN [exc |-> backend.exc, result |-> IntResult(0), request |-> request]
        ELSE LET shaped == ShapeResponse(dimensioned, backend.rows)
             IN  [exc |-> shaped.exc, result |-> shaped.result,
                  request |-> request]

\* app.py:123-126, the handler of the try
ReportExceptNarrow(dimension_names, exc) ==
    IF exc \in {"PermissionDenied", "InvalidArgument", "ServiceUnavailable"}
    THEN [raised |-> FALSE,
          error |-> "Error fetching from GA4: " \o exc,
          result |-> IF Truthy(dimension_names) THEN DictResult(EmptyDict)
                     ELSE IntResult(0)]
    ELSE [raised |-> TRUE, error |-> "", result |-> IntResult(0)]

ReportExceptAlwaysZero(dimension_names, exc) ==
    [raised |-> FALSE,
     error |-> "Error fetching from GA4: " \o exc,
     result |-> IntResult(0)]

ReportExcept(dimension_names, exc) ==
    [raised |-> FALSE,
     error |-> "Error fetching from GA4: " \o exc,
     result |-> IF Truthy(dimension_names) THEN DictResult(EmptyDict)
                ELSE IntResult(0)]

\* run_ga4_report without its memoization
run_ga4_report_body(args, backend) ==
    LET try == ReportTry(args, backend)
    IN  IF try.exc = ""
        THEN [raised |-> FALSE, error |-> "", result |-> try.result,
              request |-> try.request]
        ELSE LET handled == ReportExcept(args.dimension_names, try.exc)
             IN  [raised |-> handled.raised, error |-> handled.error,
                  result |-> handled.result, request |-> try.request]

(***************************************************************************)
(* The inputs of run_ga4_report in the report specification.               *)
(***************************************************************************)
FunnelRegex == "page_view|click_register|discord_signin"

SomeDay ==
    [year |-> 2024, month |-> 3, day |-> 1, hour |-> 12, sec |-> 0,
     utcoffset |-> -8]

DimensionNameChoices ==
    {PyNone, PyTuple(<<>>), PyTuple(<<"eventName">>),
     PyTuple(<<"eventName", "country">>)}

FilterSpecChoices ==
    {PyNone}
    \cup {PyTuple(<< <<"eventName", FunnelRegex, m>> >>) : m \in MatchModeStrings}
    \cup {PyTuple(<< <<"eventName", FunnelRegex, "FULL_REGEXP">>,
                     <<"country", "US", "exact">> >>)}

ReportArgs ==
    [metric_names : {<<"totalUsers">>},
     start_date : {SomeDay, NoneDate},
     end_date : {SomeDay},
     dimension_names : DimensionNameChoices,
     filter_specs : FilterSpecChoices]

\* the texts a metric value may carry: integers, and a text int() rejects
MetricTexts == {<<"0">>, <<"7">>, <<"4", "0">>, <<"3", ".", "5">>}

\* the values of each dimension
DimensionValues(name) ==
    IF name = "eventName" THEN {"page_view", "click_register"} ELSE {"US", "CA"}

\* the rows a response to a request with dimensions dims may hold: one value
\* per requested dimension and one metric value
RowsOf(dims) ==
    [dimension_values :
        {t \in [1..Len(dims) -> {"page_view", "click_register", "US", "CA"}] :
            \A i \in 1..Len(dims) : t[i] \in DimensionValues(dims[i])},
     metric_values : {<<m>> : m \in MetricTexts}]

\* the backend aggregates: no two rows of a response carry the same
\* dimension values
ResponsesOf(dims) ==
    {rows \in UNION {[1..n -> RowsOf(dims)] : n \in 0..MaxRows} :
        \A i, j \in DOMAIN rows :
            rows[i].dimension_values = rows[j].dimension_values => i = j}

BackendFailures == {"PermissionDenied", "InvalidArgument", "ServiceUnavailable"}

\* what ga4.run_report does with a request: it fails, or answers with rows
BackendOutcomes(dimension_names) ==
    LET dims == IF Truthy(dimension_names) THEN dimension_names.items ELSE <<>>
    IN  {[exc |-> e, rows |-> <<>>] : e \in BackendFailures}
        \cup {[exc |-> "", rows |-> r] : r \in ResponsesOf(dims)}

(***************************************************************************)
(* Specification of run_ga4_report alone: any arguments and any behaviour  *)
(* of the backend, then one call.                                          *)
(***************************************************************************)
InitReport ==
    /\ pc = "report"
    /\ \E args \in ReportArgs :
         \E backend \in BackendOutcomes(args.dimension_names) :
            call = [fn |-> "run_ga4_report", args |-> args, backend |-> backend]
    /\ secrets = Idle /\ resource_cache = Idle /\ data_cache = Idle
    /\ clock = 0 /\ now = Idle /\ lookback_days = 0 /\ date_range = Idle
    /\ funnel_event_counts = Idle /\ funnel_df = <<>> /\ total_signups = 0
    /\ render = Idle

CallReport ==
    /\ pc = "report"
    /\ LET outcome == run_ga4_report_body(call.args, call.backend)
       IN  call' = [fn |-> call.fn, args |-> call.args, backend |-> call.backend,
                    raised |-> outcome.raised, error |-> outcome.error,
                    result |-> outcome.result, request |-> outcome.request]
    /\ pc' = "report_done"
    /\ UNCHANGED <<secrets, resource_cache, data_cache, clock, now,
                   lookback_days, date_range, funnel_event_counts, funnel_df,
                   total_signups, render>>

NextReport == CallReport

SpecReport == InitReport /\ [][NextReport]_vars

(***************************************************************************)
(* Claims about run_ga4_report.                                            *)
(***************************************************************************)
ReportDone == pc = "report_done"

\* a failure inside the function, read off its inputs: an unknown match
\* mode, a date that cannot be formatted, a failing backend call, or a
\* metric text of a shaped row that is no integer
FailureInside ==
    LET args == call.args
        rows == call.backend.rows
        badMode == /\ Truthy(args.filter_specs)
                   /\ \E i \in DOMAIN args.filter_specs.items :
                         args.filter_specs.items[i][3] \notin {"FULL_REGEXP", "exact"}
        badDate == IsNoneDate(args.start_date)
        badParse == IF Truthy(args.dimension_names)
                    THEN \E i \in DOMAIN rows : rows[i].metric_values[1] = <<"3", ".", "5">>
                    ELSE Len(rows) > 0 /\ rows[1].metric_values[1] = <<"3", ".", "5">>
    IN  badMode \/ badDate \/ call.backend.exc # "" \/ badParse

\* C1: run_ga4_report never raises; on every failure inside it, it reports
\* the error through st.error and returns 0 when no dimensions were requested
\* and the empty mapping when dimensions were requested, so a failure's
\* default has the type of a success's result for the same arguments.
C1_NeverRaisesTypedDefault ==
    ReportDone =>
        /\ ~call.raised
        /\ call.result.type =
              IF Truthy(call.args.dimension_names) THEN "dict" ELSE "int"
        /\ FailureInside =>
              /\ call.error # ""
              /\ call.result.n = 0
              /\ DOMAIN call.result.d = {}

\* an unknown match mode in a dimensioned call: the empty mapping
C1_Witness ==
    /\ ReportDone
    /\ call.args.dimension_names = PyTuple(<<"eventName">>)
    /\ call.args.start_date = SomeDay
    /\ call.args.filter_specs =
          PyTuple(<< <<"eventName", FunnelRegex, "prefix">> >>)
    /\ call.error = "Error fetching from GA4: KeyError"
    /\ call.result.type = "dict"
    /\ DOMAIN call.result.d = {}

\* C6: for a successful response, without dimensions the result is the
\* integer metric value of the first row, or 0 without rows; with dimensions
\* it is a mapping whose keys are exactly the first-dimension values of the
\* returned rows, each row's value mapped to that row's integer metric value.
C6_ResultFollowsRows ==
    ReportDone /\ call.backend.exc = "" /\ call.error = "" =>
        LET rows == call.backend.rows
        IN  IF ~Truthy(call.args.dimension_names)
            THEN /\ call.result.type = "int"
                 /\ call.result.n =
                       IF Len(rows) = 0 THEN 0
                       ELSE IntOfText(rows[1].metric_values[1])
            ELSE /\ call.result.type = "dict"
                 /\ DOMAIN call.result.d =
                       {rows[i].dimension_values[1] : i \in DOMAIN rows}
                 /\ \A i \in DOMAIN rows :
                       call.result.d[rows[i].dimension_values[1]] =
                           IntOfText(rows[i].metric_values[1])

(***************************************************************************)
(* Memoization: @st.cache_data(ttl=3600) (app.py:45, 55, 73).  Each        *)
(* decorated function has its own cache, from the arguments of a call to   *)
(* the entry that call stored: the value returned, the st.error message    *)
(* the call showed (replayed on a hit) and the instant it was stored.  An  *)
(* entry is served while it is younger than the ttl; an expired entry is   *)
(* never served and stays until a fresh call overwrites it.                *)
(***************************************************************************)
TTL == 3600

CachedFunctions == {"db_total_signups", "db_signups_for_day", "run_ga4_report"}

EmptyCache == [k \in {} |-> 0]

NoCaches == [f \in CachedFunctions |-> EmptyCache]

Fresh(entry, t) == t - entry.stored_at < TTL

\* the decorator: the call of a function with arguments key at instant t,
\* where computed is what the function's body does if it runs
CachedCallSkipErrors(cache, key, t, computed) ==
    IF key \in DOMAIN cache /\ Fresh(cache[key], t)
    THEN [hit |-> TRUE, requested |-> FALSE, result |-> cache[key].result,
          error |-> cache[key].error, stored_at |-> cache[key].stored_at,
          cache |-> cache]
    ELSE [hit |-> FALSE, requested |-> computed.requested,
          result |-> computed.result, error |-> computed.error,
          stored_at |-> t,
          cache |-> IF computed.error # "" THEN cache
                    ELSE [k \in DOMAIN cache \cup {key} |->
                            IF k = key
                            THEN [result |-> computed.result,
                                  error |-> computed.error, stored_at |-> t]
                            ELSE cache[k]]]

CachedCall(cache, key, t, computed) ==
    IF key \in DOMAIN cache /\ Fresh(cache[key], t)
    THEN [hit |-> TRUE, requested |-> FALSE, result |-> cache[key].result,
          error |-> cache[key].error, stored_at |-> cache[key].stored_at,
          cache |-> cache]
    ELSE [hit |-> FALSE, requested |-> computed.requested,
          result |-> computed.result, error |-> computed.error,
          stored_at |-> t,
          cache |-> [k \in DOMAIN cache \cup {key} |->
                        IF k = key
                        THEN [result |-> computed.result,
                              error |-> computed.error, stored_at |-> t]
                        ELSE cache[k]]]

\* app.py:46-53
db_total_signups_body(backend) ==
    IF backend.exc = ""
    THEN [result |-> IntResult(backend.count), error |-> "", requested |-> TRUE]
    ELSE [result |-> IntResult(0),
          error |-> "Error fetching from Supabase: " \o backend.exc,
          requested |-> TRUE]

\* app.py:56-67
db_signups_for_day_body(backend) ==
    IF backend.exc = ""
    THEN [result |-> IntResult(backend.count), error |-> "", requested |-> TRUE]
    ELSE [result |-> IntResult(0),
          error |-> "Error fetching daily signups from Supabase: " \o backend.exc,
          requested |-> TRUE]

\* run_ga4_report's body as the decorator sees it
ReportComputed(args, backend) ==
    LET outcome == run_ga4_report_body(args, backend)
    IN  [result |-> outcome.result, error |-> outcome.error,
         requested |-> outcome.request.sent]

\* what the Profile Store does with a count query
SupabaseOutcomes ==
    {[exc |-> "APIError", count |-> 0], [exc |-> "", count |-> 5]}

NoArgs == "()"

\* the arguments of db_signups_for_day in the cache specification
DayArgs == {[start_date |-> TodayStart(SomeDay), end_date |-> SomeDay]}

\* the arguments of the funnel query (app.py:183-189) for a date range
FunnelArgs(start_date, end_date) ==
    [metric_names |-> <<"totalUsers">>,
     start_date |-> start_date,
     end_date |-> end_date,
     dimension_names |-> PyTuple(<<"eventName">>),
     filter_specs |-> PyTuple(<< <<"eventName", FunnelRegex, "FULL_REGEXP">> >>)]

\* the argument tuples of run_ga4_report in the cache specification: the
\* funnel query and an undimensioned total
CacheReportArgs ==
    {FunnelArgs(TodayStart(SomeDay), SomeDay),
     [FunnelArgs(TodayStart(SomeDay), SomeDay) EXCEPT
         !.dimension_names = PyNone, !.filter_specs = PyNone]}

\* what the Analytics Reporting Service does in the cache and render
\* specifications: it fails, or answers with the rows of the worked example
ExampleRows ==
    << [dimension_values |-> <<"page_view">>,
        metric_values |-> << <<"1", "0", "0", "0">> >>],
       [dimension_values |-> <<"click_register">>,
        metric_values |-> << <<"2", "5", "0">> >>],
       [dimension_values |-> <<"discord_signin">>,
        metric_values |-> << <<"4", "0">> >>] >>

TotalRows ==
    << [dimension_values |-> <<>>, metric_values |-> << <<"7">> >>] >>

Ga4Outcomes(args) ==
    {[exc |-> "ServiceUnavailable", rows |-> <<>>],
     [exc |-> "",
      rows |-> IF Truthy(args.dimension_names) THEN ExampleRows ELSE TotalRows]}

(***************************************************************************)
(* Specification of the memoized functions: calls of the three functions   *)
(* in any order, the clock advancing, the process restarting.              *)
(***************************************************************************)
InitCache ==
    /\ pc = "start"
    /\ data_cache = NoCaches
    /\ clock = 0
    /\ call = Idle
    /\ secrets = Idle /\ resource_cache = Idle
    /\ now = Idle /\ lookback_days = 0 /\ date_range = Idle
    /\ funnel_event_counts = Idle /\ funnel_df = <<>> /\ total_signups = 0
    /\ render = Idle

\* one call of function fn with arguments key, whose body would do computed
DoCall(fn, key, computed) ==
    LET c == CachedCall(data_cache[fn], key, clock, computed)
    IN  /\ data_cache' = [data_cache EXCEPT ![fn] = c.cache]
        /\ call' = [fn |-> fn, args |-> key, hit |-> c.hit,
                    requested |-> c.requested, result |-> c.result,
                    error |-> c.error, stored_at |-> c.stored_at]
        /\ pc' = "call"
        /\ UNCHANGED <<secrets, resource_cache, clock, now, lookback_days,
                       date_range, funnel_event_counts, funnel_df,
                       total_signups, render>>

CallDbTotalSignups ==
    \E backend \in SupabaseOutcomes :
        DoCall("db_total_signups", NoArgs, db_total_signups_body(backend))

CallDbSignupsForDay ==
    \E args \in DayArgs, backend \in SupabaseOutcomes :
        DoCall("db_signups_for_day", args, db_signups_for_day_body(backend))

CallRunGa4Report ==
    \E args \in CacheReportArgs :
        \E backend \in Ga4Outcomes(args) :
            DoCall("run_ga4_report", args, ReportComputed(args, backend))

Tick ==
    /\ clock < MaxTicks * TickSeconds
    /\ clock' = clock + TickSeconds
    /\ pc' = "tick"
    /\ UNCHANGED <<secrets, resource_cache, data_cache, call, now, lookback_days,
                   date_range, funnel_event_counts, funnel_df, total_signups,
                   render>>

\* the process ends and a new one starts: the in-memory caches are gone
RestartCache ==
    /\ data_cache' = NoCaches
    /\ pc' = "restart"
    /\ UNCHANGED <<secrets, resource_cache, clock, call, now, lookback_days,
                   date_range, funnel_event_counts, funnel_df, total_signups,
                   render>>

NextCache ==
    \/ CallDbTotalSignups
    \/ CallDbSignupsForDay
    \/ CallRunGa4Report
    \/ Tick
    \/ RestartCache

SpecCache == InitCache /\ [][NextCache]_vars

(***************************************************************************)
(* Claims about the memoization.                                           *)
(***************************************************************************)
\* C9: for each memoized function and each argument tuple, a call made less
\* than one hour after a result was stored for the same function and
\* arguments returns that stored result (a stored safe default included) and
\* issues no backend request; a call made more than one hour after it, or
\* with nothing stored (as after a restart), issues a backend request and its
\* result is stored; an entry changes or disappears only by a restart or by
\* such a fresh call for its own function and arguments.
C9_StepOk ==
    /\ pc' = "call" =>
          LET fn == call'.fn
              key == call'.args
              before == data_cache[fn]
          IN  /\ (key \in DOMAIN before /\ clock - before[key].stored_at < TTL)
                    => /\ call'.result = before[key].result
                       /\ ~call'.requested
                       /\ data_cache' = data_cache
              /\ (key \notin DOMAIN before
                  \/ clock - before[key].stored_at > TTL)
                    => /\ call'.requested
                       /\ key \in DOMAIN data_cache'[fn]
                       /\ data_cache'[fn][key].result = call'.result
                       /\ data_cache'[fn][key].stored_at = clock
              /\ \A f \in CachedFunctions \ {fn} :
                    data_cache'[f] = data_cache[f]
              /\ \A k \in DOMAIN before \ {key} :
                    k \in DOMAIN data_cache'[fn]
                    /\ data_cache'[fn][k] = before[k]
    /\ pc' = "tick" => data_cache' = data_cache
    /\ pc' = "restart" =>
          \A f \in CachedFunctions : DOMAIN data_cache'[f] = {}

C9_CacheWithinTtl == [][C9_StepOk]_vars

\* a safe default stored by a failed call is served again later in the hour
C9_Witness ==
    /\ pc = "call"
    /\ call.fn = "run_ga4_report"
    /\ call.hit
    /\ ~call.requested
    /\ call.error # ""
    /\ call.stored_at < clock
    /\ clock - call.stored_at < TTL

(***************************************************************************)
(* The script (app.py:25-42 and 130-235): one run of it, top to bottom, is *)
(* one render.  An exception that leaves the script ends the render: the   *)
(* elements shown so far stay and nothing below is shown.                  *)
(***************************************************************************)
\* the states of the process's configuration: every secret present and
\* valid, the service-account blob no valid JSON, a secret missing
SecretConfigs ==
    {[SUPABASE |-> "ok", GA4_SERVICE_ACCOUNT_JSON |-> "ok", GA4_PROPERTY_ID |-> "ok"],
     [SUPABASE |-> "ok", GA4_SERVICE_ACCOUNT_JSON |-> "malformed", GA4_PROPERTY_ID |-> "ok"],
     [SUPABASE |-> "missing", GA4_SERVICE_ACCOUNT_JSON |-> "ok", GA4_PROPERTY_ID |-> "ok"],
     [SUPABASE |-> "ok", GA4_SERVICE_ACCOUNT_JSON |-> "ok", GA4_PROPERTY_ID |-> "missing"]}

NoClients == [supabase |-> FALSE, ga4 |-> FALSE]

\* app.py:25-30 and 40: the client is built once per process
init_supabase_client(config, clients) ==
    IF clients.supabase THEN [exc |-> "", clients |-> clients]
    ELSE IF config.SUPABASE = "ok"
         THEN [exc |-> "", clients |-> [clients EXCEPT !.supabase = TRUE]]
         ELSE [exc |-> "KeyError", clients |-> clients]

\* app.py:32-38 and 41
init_ga4_client(config, clients) ==
    IF clients.ga4 THEN [exc |-> "", clients |-> clients]
    ELSE IF config.GA4_SERVICE_ACCOUNT_JSON = "ok"
         THEN [exc |-> "", clients |-> [clients EXCEPT !.ga4 = TRUE]]
         ELSE IF config.GA4_SERVICE_ACCOUNT_JSON = "malformed"
              THEN [exc |-> "JSONDecodeError", clients |-> clients]
              ELSE [exc |-> "KeyError", clients |-> clients]

\* app.py:40-42: nothing catches what these three lines raise
ClientInitialization(config, clients) ==
    LET sb == init_supabase_client(config, clients)
        ga == init_ga4_client(config, sb.clients)
    IN  IF sb.exc # "" THEN sb
        ELSE IF ga.exc # "" THEN ga
        ELSE IF config.GA4_PROPERTY_ID # "ok"
             THEN [exc |-> "KeyError", clients |-> ga.clients]
             ELSE [exc |-> "", clients |-> ga.clients]

\* app.py:162, datetime.now(tz) at instant t: the clock starts at
\* 2024-02-29 23:00:00 PST
NowAt(t) ==
    LET total == 23 * 3600 + t
        ymd == Ord2Ymd(Ymd2Ord(2024, 2, 29) + total \div 86400)
    IN  [year |-> ymd.year, month |-> ymd.month, day |-> ymd.day,
         hour |-> (total % 86400) \div 3600, sec |-> total % 3600,
         utcoffset |-> -8]

\* app.py:183-189: the end of the range is the instant the script read
FunnelQueryArgsByDate(at, lookback) ==
    FunnelArgs(TodayStart(RangeStart(at, lookback)), TodayStart(RangeEnd(at)))

FunnelQueryArgs(at, lookback) ==
    FunnelArgs(RangeStart(at, lookback), RangeEnd(at))

NotRendered ==
    [status |-> "none", exc |-> "", shown |-> {}, errors |-> {}, hits |-> {},
     requests |-> {}, failed |-> {}, at |-> -1]

InitRender ==
    /\ pc = "start"
    /\ secrets \in SecretConfigs
    /\ resource_cache = NoClients
    /\ data_cache = NoCaches
    /\ clock = 0
    /\ call = Idle
    /\ now = Idle /\ lookback_days = 0 /\ date_range = Idle
    /\ funnel_event_counts = EmptyDict /\ funnel_df = <<>>
    /\ total_signups = 0
    /\ render = NotRendered

\* a render that an exception ends at line 40-42 or 191
Crash(exc, shown, errors, hits, requests, failed) ==
    /\ render' = [status |-> "crashed", exc |-> exc, shown |-> shown,
                  errors |-> errors, hits |-> hits, requests |-> requests,
                  failed |-> failed, at |-> clock]
    /\ funnel_df' = <<>>

\* the responses to the funnel query
FunnelOutcomes == Ga4Outcomes(FunnelArgs(SomeDay, SomeDay))

\* app.py:191-235, after both queries returned: db and report are the
\* outcomes of the two memoized calls
FinishRender(lookback, at, args, db, report) ==
    LET calls == [db_total_signups |-> db, run_ga4_report |-> report]
        fns == {"db_total_signups", "run_ga4_report"}
        errors == {calls[f].error : f \in fns} \ {""}
        hits == {f \in fns : calls[f].hit}
        requests == {f \in fns : calls[f].requested}
        failed == {f \in requests : calls[f].error # ""}
    IN  /\ total_signups' = db.result.n
        /\ now' = at
        /\ lookback_days' = lookback
        /\ date_range' = MakeDateRange(args.start_date, args.end_date)
        /\ data_cache' = [data_cache EXCEPT
              !["db_total_signups"] = db.cache,
              !["run_ga4_report"] = report.cache]
        /\ IF report.result.type # "dict"
           THEN /\ Crash("AttributeError", {"title", "metric"},
                         errors, hits, requests, failed)
                /\ funnel_event_counts' = EmptyDict
           ELSE /\ funnel_event_counts' = report.result.d
                /\ funnel_df' = FunnelDf(FunnelSteps(report.result.d))
                /\ render' =
                      [status |-> "done", exc |-> "",
                       shown |-> {"title", "metric", "header", "table"},
                       errors |-> errors, hits |-> hits,
                       requests |-> requests, failed |-> failed,
                       at |-> clock]

\* one run of the script.  lookback is the selectbox's value, sb and ga what
\* the two backends do if they are asked.  No two runs read the same instant
\* from the clock.
Render ==
    /\ render.at # clock
    /\ pc' = "render"
    /\ UNCHANGED <<secrets, clock, call>>
    /\ \E init \in {ClientInitialization(secrets, resource_cache)} :
        /\ resource_cache' = init.clients
        /\ IF init.exc # ""
           THEN /\ Crash(init.exc, {}, {}, {}, {}, {})
                /\ total_signups' = 0 /\ now' = Idle /\ lookback_days' = 0
                /\ date_range' = Idle /\ funnel_event_counts' = EmptyDict
                /\ UNCHANGED data_cache
           ELSE \E i \in DOMAIN LOOKBACK_OPTIONS, sb \in SupabaseOutcomes,
                   ga \in FunnelOutcomes, at \in {NowAt(clock)} :
                \E args \in {FunnelQueryArgs(at, LOOKBACK_OPTIONS[i])} :
                \E dbBody \in {db_total_signups_body(sb)},
                   reportBody \in {ReportComputed(args, ga)} :
                \E db \in {CachedCall(data_cache["db_total_signups"], NoArgs,
                                      clock, dbBody)},
                   report \in {CachedCall(data_cache["run_ga4_report"], args,
                                          clock, reportBody)} :
                    FinishRender(LOOKBACK_OPTIONS[i], at, args, db, report)

TickRender ==
    /\ clock < MaxTicks * TickSeconds
    /\ clock' = clock + TickSeconds
    /\ pc' = "tick"
    /\ UNCHANGED <<secrets, resource_cache, data_cache, call, now,
                   lookback_days, date_range, funnel_event_counts, funnel_df,
                   total_signups, render>>

\* the process ends and a new one starts, with any configuration
Restart ==
    /\ secrets' \in SecretConfigs
    /\ resource_cache' = NoClients
    /\ data_cache' = NoCaches
    /\ pc' = "restart"
    /\ now' = Idle /\ lookback_days' = 0 /\ date_range' = Idle
    /\ funnel_event_counts' = EmptyDict /\ funnel_df' = <<>>
    /\ total_signups' = 0
    /\ render' = [NotRendered EXCEPT !.at = render.at]
    /\ UNCHANGED <<clock, call>>

Next == Render \/ TickRender \/ Restart

Spec == InitRender /\ [][Next]_vars

(***************************************************************************)
(* Claims about the render.                                                *)
(***************************************************************************)
Rendered == render.status # "none"

\* C2: when the Analytics Reporting Service call fails during a render, the
\* render still ends with a well-formed four-stage table: the placeholder
\* stage has no total, the three analytics stages have total 0, every
\* percentage and drop-off cell is the sentinel, and nothing propagates out
\* of the render.
C2_FailedReportGivesZeroFunnel ==
    Rendered /\ "run_ga4_report" \in render.failed =>
        /\ render.status = "done"
        /\ "table" \in render.shown
        /\ \E e \in render.errors : e = "Error fetching from GA4: ServiceUnavailable"
        /\ Len(funnel_df) = 4
        /\ ~funnel_df[1].Total.notna
        /\ funnel_df[2].Step = "Landing Page Visits"
        /\ funnel_df[3].Step = "Clicked Register"
        /\ funnel_df[4].Step = "Signed in with Discord"
        /\ \A i \in 2..4 : funnel_df[i].Total = Some(0)
        /\ AllSentinel(funnel_df)

C2_Witness ==
    /\ render.status = "done"
    /\ render.failed = {"run_ga4_report"}
    /\ total_signups = 5
    /\ funnel_df[2].TotalText = "0"
    /\ funnel_df[2].Pct = Sentinel

\* C8: in every render, a failure on the Analytics Reporting Service side (a
\* malformed credential blob, a failing report call) does not keep the
\* lifetime count from being displayed, a failure on the Profile Store side
\* does not keep the funnel table from being displayed, and the render
\* reaches the final table instead of stopping with an unhandled failure.
C8_FailuresAreIsolated ==
    Rendered =>
        LET analyticsFailure ==
                \/ secrets.GA4_SERVICE_ACCOUNT_JSON = "malformed"
                \/ "run_ga4_report" \in render.failed
            profileFailure == "db_total_signups" \in render.failed
        IN  /\ analyticsFailure => "metric" \in render.shown
            /\ profileFailure => "table" \in render.shown
            /\ analyticsFailure \/ profileFailure =>
                  /\ render.status = "done"
                  /\ render.errors # {}

\* C10: the end of the funnel query's range is the instant the render read
\* from the clock, so renders at distinct instants never share a key of
\* run_ga4_report: every render that reaches the funnel query issues its own
\* analytics request, also with an unchanged lookback within the hour, and
\* only db_total_signups is ever served from the cache.
C10_EveryRenderQueriesAnalytics ==
    /\ render.status = "done" =>
          /\ "run_ga4_report" \in render.requests
          /\ render.hits \subseteq {"db_total_signups"}
    /\ \A k1, k2 \in DOMAIN data_cache["run_ga4_report"] :
          k1.end_date = k2.end_date => k1 = k2

\* a second render within the hour, same lookback, same dates sent: the
\* count comes from the cache, the report from the backend
C10_Witness ==
    /\ render.status = "done"
    /\ render.hits = {"db_total_signups"}
    /\ "run_ga4_report" \in render.requests
    /\ \E k \in DOMAIN data_cache["run_ga4_report"] :
          /\ k.end_date # now
          /\ MakeDateRange(k.start_date, k.end_date) = date_range
          /\ clock - data_cache["run_ga4_report"][k].stored_at < TTL

====
